---- MODULE Spec2Model ----
(***************************************************************************)
(* The droplet-creation form of bubbletea-droplet (src/main.go): the       *)
(* model struct, its Update handler, the dropletCreate command and the     *)
(* request builder setDropletCreate, run by the bubbletea event loop.      *)
(*                                                                         *)
(* Strings a user can edit are sequences of one-character strings, so that *)
(* appending, deleting and parsing act on characters.  Messages shown to   *)
(* the user are TLA+ strings.                                              *)
(***************************************************************************)
EXTENDS Integers, Sequences, FiniteSets, TLC

(***************************************************************************)
(* Bounds of the model.                                                    *)
(***************************************************************************)
\* Number of key events one session handles.
MaxKeys == 4
\* Number of dropletCreate commands one session may dispatch.
MaxTasks == 2
\* Length of the image strings, and of the other fields' strings, the
\* request builder is applied to in SpecReq.
MaxStr == 2
MaxFieldStr == 1
\* How many characters below its limit an input may start in SpecLimit.
MaxBelow == 1

(***************************************************************************)
(* Program constants.                                                      *)
(***************************************************************************)
\* len(m.inputs): four text inputs; index NumInputs is the Create button.
NumInputs == 4
\* t.CharLimit of the name input, and of the three other inputs.
NameCharLimit == 64
CharLimit == 32
\* Frames of spinner.Points.
NumFrames == 4

\* CharLimitOf with t.CharLimit left at textinput's default, no limit.
CharLimitOfUnset(i) == 0

CharLimitOf(i) == IF i = 1 THEN NameCharLimit ELSE CharLimit

\* The runes a key event can carry in this model: two digits and a letter.
Chars == {"0", "1", "a"}
Digits == <<"0", "1", "2", "3", "4", "5", "6", "7", "8", "9">>

\* The placeholders of inputs 0..3 (initialModel), here at indexes 1..4.
Placeholder(i) ==
    CASE i = 1 -> <<"w", "e", "b", "-", "0", "0", "1">>
      [] i = 2 -> <<"n", "y", "c", "3">>
      [] i = 3 -> <<"s", "-", "1", "v", "c", "p", "u", "-", "1", "g", "b">>
      [] i = 4 -> <<"u", "b", "u", "n", "t", "u", "-", "2", "0", "-", "0", "4", "-", "x", "6", "4">>

CancelKeys == {"ctrl+c", "esc"}
FocusKeys == {"tab", "shift+tab", "enter", "up", "down"}
\* Keys that reach the text inputs: backspace and one key per rune.
EditKeys == {"backspace"} \cup Chars
Keys == CancelKeys \cup FocusKeys \cup EditKeys

(***************************************************************************)
(* strconv.Atoi on a sequence of characters: an optional sign followed by  *)
(* at least one decimal digit and nothing else.  Strings of the lengths    *)
(* modelled here never leave the range of int.                             *)
(***************************************************************************)
IsDigit(c) == \E d \in 1..10 : Digits[d] = c
DigitVal(c) == (CHOOSE d \in 1..10 : Digits[d] = c) - 1

RECURSIVE DigitsVal(_)
DigitsVal(s) ==
    IF s = <<>> THEN 0
    ELSE 10 * DigitsVal(SubSeq(s, 1, Len(s) - 1)) + DigitVal(s[Len(s)])

Atoi(s) ==
    LET signed == Len(s) > 0 /\ s[1] \in {"+", "-"}
        body == IF signed THEN Tail(s) ELSE s
    IN  IF body = <<>> \/ \E k \in 1..Len(body) : ~IsDigit(body[k])
        THEN [err |-> TRUE, i |-> 0]
        ELSE [err |-> FALSE,
              i |-> IF signed /\ s[1] = "-" THEN 0 - DigitsVal(body) ELSE DigitsVal(body)]

(***************************************************************************)
(* setDropletCreate: the request built from the inputs.  The zero value of *)
(* godo.DropletCreateImage is ID 0 and Slug "".                            *)
(***************************************************************************)
Value(inp) == inp.value

Resolve(inps, i) ==
    IF Value(inps[i]) = <<>> THEN Placeholder(i) ELSE Value(inps[i])

\* CreateImage without the numeric form.
CreateImageSlugOnly(imageStr) == [ID |-> 0, Slug |-> imageStr]

CreateImage(imageStr) ==
    LET r == Atoi(imageStr)
    IN  IF ~r.err THEN [ID |-> r.i, Slug |-> <<>>]
        ELSE [ID |-> 0, Slug |-> imageStr]

\* setDropletCreate reading the region from the size input and back.
setDropletCreateSwapped(inps) ==
    [Name |-> Resolve(inps, 1),
     Region |-> Resolve(inps, 3),
     Size |-> Resolve(inps, 2),
     Image |-> CreateImage(Resolve(inps, 4))]

setDropletCreate(inps) ==
    [Name |-> Resolve(inps, 1),
     Region |-> Resolve(inps, 2),
     Size |-> Resolve(inps, 3),
     Image |-> CreateImage(Resolve(inps, 4))]

(***************************************************************************)
(* State.  The fields of model, then the bubbletea runtime around it: the  *)
(* commands Update has returned and the messages they have in flight.      *)
(***************************************************************************)
VARIABLES
    focusIndex,   \* m.focusIndex, 0..NumInputs
    inputs,       \* m.inputs: [value, focus] for inputs 0..3, at indexes 1..4
    spinner,      \* m.spinner: the frame shown
    creating,     \* m.creating
    finalMsg,     \* m.finalMsg, "" until a dropletMsg is handled
    droplet,      \* m.droplet: <<>> for nil, else <<request>>
    tasks,        \* the dropletCreate commands dispatched, in order
    ticks,        \* spinner tick messages in flight
    quitting,     \* tea.Quit has been returned and its message is in flight
    program,      \* "running", "quit" (event loop returned) or "panic"
    token,        \* os.Getenv("DO_TOKEN")
    nkeys,        \* key events handled so far
    lastKey       \* the key of the key event Update handled last, "" before any

vars == <<focusIndex, inputs, spinner, creating, finalMsg, droplet, tasks,
          ticks, quitting, program, token, nkeys, lastKey>>

form == <<focusIndex, inputs, spinner, creating, finalMsg, droplet>>

\* err.Error() of the error each step can return.
ErrorOf(op) ==
    CASE op = "getenv" -> "set the 'DO_TOKEN' environment variable to a DigitalOcean API token"
      [] op = "create" -> "create: request rejected"
      [] op = "wait" -> "wait: droplet not active"
      [] op = "get" -> "get: droplet not found"
      [] op = "publicIP" -> "no public IPv4"
      [] op = "privateIP" -> "no private IPv4"

dropletErrorMsg(err) == "Something went wrong:\n\n" \o err \o "\n\n"

SuccessMsg == "Success!\n\nName: Price Monthly: Region: Size: Public IPv4: Private IPv4:\n"

\* A command as dropletCreate returns it: it holds the request and has not
\* run yet.  calls records the collaborator steps invoked and what each
\* returned, sent the request Create was called with (none yet), msg the
\* dropletMsg the function returned.
NewTask(req) ==
    [req |-> req, pc |-> "getenv", calls |-> <<>>, sent |-> <<>>, msg |-> ""]

NewInput == [value |-> <<>>, focus |-> FALSE]

Focus(inp) == [inp EXCEPT !.focus = TRUE]
\* Blur also clearing the text.
BlurReset(inp) == [inp EXCEPT !.focus = FALSE, !.value = <<>>]

Blur(inp) == [inp EXCEPT !.focus = FALSE]

initialModel ==
    [focusIndex |-> 0,
     inputs |-> [i \in 1..NumInputs |-> IF i = 1 THEN Focus(NewInput) ELSE NewInput],
     creating |-> FALSE,
     finalMsg |-> "",
     droplet |-> <<>>]

Init ==
    /\ focusIndex = initialModel.focusIndex
    /\ inputs = initialModel.inputs
    /\ spinner = 0
    /\ creating = initialModel.creating
    /\ finalMsg = initialModel.finalMsg
    /\ droplet = initialModel.droplet
    /\ tasks = <<>>
    /\ ticks = 0
    /\ quitting = FALSE
    /\ program = "running"
    /\ token \in {"", "dop_v1_token"}
    /\ nkeys = 0
    /\ lastKey = ""

(***************************************************************************)
(* textinput.Model.Update for a key: only a focused input responds; a rune *)
(* is appended below the character limit, backspace deletes the last one.  *)
(***************************************************************************)
InputUpdate(inp, limit, key) ==
    IF ~inp.focus THEN inp
    ELSE IF key = "backspace"
         THEN IF Len(inp.value) > 0
              THEN [inp EXCEPT !.value = SubSeq(inp.value, 1, Len(inp.value) - 1)]
              ELSE inp
    ELSE IF key \in Chars
         THEN IF limit <= 0 \/ Len(inp.value) < limit
              THEN [inp EXCEPT !.value = Append(inp.value, key)]
              ELSE inp
    ELSE inp

updateInputs(inps, key) ==
    [i \in 1..NumInputs |-> InputUpdate(inps[i], CharLimitOf(i), key)]

(***************************************************************************)
(* model.Update.                                                           *)
(***************************************************************************)
\* case "ctrl+c", "esc"
IsCancel(key) == key \in CancelKeys

\* case "tab", "shift+tab", "enter", "up", "down"
IsFocusKey(key) == key \in FocusKeys

\* IsSubmit without the test of the focus.
IsSubmitAnywhere(s, idx) == s = "enter"

\* if s == "enter" && m.focusIndex == len(m.inputs)
IsSubmit(s, idx) == s = "enter" /\ idx = NumInputs

\* CycleIndex without the wrap below zero.
CycleIndexNoWrapBelow(idx, s) ==
    LET n == IF s = "up" \/ s = "shift+tab" THEN idx - 1 ELSE idx + 1
    IN  IF n > NumInputs THEN 0 ELSE n

\* CycleIndex without the wrap above the Create button.
CycleIndexNoWrapAbove(idx, s) ==
    LET n == IF s = "up" \/ s = "shift+tab" THEN idx - 1 ELSE idx + 1
    IN  IF n < 0 THEN NumInputs ELSE n

\* Cycle indexes
CycleIndex(idx, s) ==
    LET n == IF s = "up" \/ s = "shift+tab" THEN idx - 1 ELSE idx + 1
    IN  IF n > NumInputs THEN 0
        ELSE IF n < 0 THEN NumInputs
        ELSE n

\* SetFocus leaving the other inputs as they are.
SetFocusNoBlur(inps, idx) ==
    [i \in 1..NumInputs |-> IF i - 1 = idx THEN Focus(inps[i]) ELSE inps[i]]

\* The loop that focuses input idx and blurs the others.
SetFocus(inps, idx) ==
    [i \in 1..NumInputs |-> IF i - 1 = idx THEN Focus(inps[i]) ELSE Blur(inps[i])]

\* The event loop hands Update a key event.
KeyEvent(key) ==
    /\ program = "running"
    /\ nkeys < MaxKeys
    /\ nkeys' = nkeys + 1
    /\ lastKey' = key

\* UpdateCancel honoured only while the form is shown.
UpdateCancelWhileEditing(key) ==
    /\ KeyEvent(key)
    /\ IsCancel(key)
    /\ quitting' = (quitting \/ ~creating)
    /\ UNCHANGED <<form, tasks, ticks, program, token>>

\* return m, tea.Quit
UpdateCancel(key) ==
    /\ KeyEvent(key)
    /\ IsCancel(key)
    /\ quitting' = TRUE
    /\ UNCHANGED <<form, tasks, ticks, program, token>>

\* Enter on the Create button: build the request, dispatch the command and
\* the first spinner tick.
UpdateSubmit(key) ==
    /\ KeyEvent(key)
    /\ ~IsCancel(key) /\ IsFocusKey(key)
    /\ IsSubmit(key, focusIndex)
    /\ Len(tasks) < MaxTasks
    /\ droplet' = <<setDropletCreate(inputs)>>
    /\ creating' = TRUE
    /\ tasks' = Append(tasks, NewTask(droplet'[1]))
    /\ ticks' = ticks + 1
    /\ UNCHANGED <<focusIndex, inputs, spinner, finalMsg, quitting, program, token>>

\* Any other focus key moves the focus.
UpdateFocus(key) ==
    /\ KeyEvent(key)
    /\ ~IsCancel(key) /\ IsFocusKey(key)
    /\ ~IsSubmit(key, focusIndex)
    /\ focusIndex' = CycleIndex(focusIndex, key)
    /\ inputs' = SetFocus(inputs, focusIndex')
    /\ UNCHANGED <<spinner, creating, finalMsg, droplet, tasks, ticks, quitting,
                   program, token>>

\* Any other key falls through to updateInputs and spinner.Update, which
\* ignores keys.
UpdateEdit(key) ==
    /\ KeyEvent(key)
    /\ ~IsCancel(key) /\ ~IsFocusKey(key)
    /\ inputs' = updateInputs(inputs, key)
    /\ UNCHANGED <<focusIndex, spinner, creating, finalMsg, droplet, tasks, ticks,
                   quitting, program, token>>

\* model.Update for a key event.
UpdateKeyMsg(key) ==
    \/ UpdateCancel(key)
    \/ UpdateSubmit(key)
    \/ UpdateFocus(key)
    \/ UpdateEdit(key)

\* UpdateTick with inputs that take the tick for a character.
UpdateTickAsKey ==
    /\ program = "running"
    /\ UNCHANGED <<nkeys, lastKey>>
    /\ ticks > 0
    /\ inputs' = updateInputs(inputs, "a")
    /\ spinner' = (spinner + 1) % NumFrames
    /\ ticks' = ticks - 1 + 1
    /\ UNCHANGED <<focusIndex, creating, finalMsg, droplet, tasks, quitting,
                   program, token>>

\* A spinner tick falls through too: the inputs ignore it, the spinner
\* advances one frame and asks for the next tick.
UpdateTick ==
    /\ program = "running"
    /\ UNCHANGED <<nkeys, lastKey>>
    /\ ticks > 0
    /\ inputs' = inputs
    /\ spinner' = (spinner + 1) % NumFrames
    /\ ticks' = ticks - 1 + 1
    /\ UNCHANGED <<focusIndex, creating, finalMsg, droplet, tasks, quitting,
                   program, token>>

\* UpdateDropletMsg also clearing m.creating when the message arrives.
UpdateDropletMsgResetting(t) ==
    /\ program = "running"
    /\ tasks[t].pc = "returned"
    /\ UNCHANGED <<nkeys, lastKey>>
    /\ finalMsg' = tasks[t].msg
    /\ creating' = FALSE
    /\ quitting' = TRUE
    /\ tasks' = [tasks EXCEPT ![t].pc = "handled"]
    /\ UNCHANGED <<focusIndex, inputs, spinner, droplet, ticks, program, token>>

\* case dropletMsg: m.finalMsg = string(msg); return m, tea.Quit
UpdateDropletMsg(t) ==
    /\ program = "running"
    /\ tasks[t].pc = "returned"
    /\ UNCHANGED <<nkeys, lastKey>>
    /\ finalMsg' = tasks[t].msg
    /\ quitting' = TRUE
    /\ tasks' = [tasks EXCEPT ![t].pc = "handled"]
    /\ UNCHANGED <<focusIndex, inputs, spinner, creating, droplet, ticks, program, token>>

\* The event loop receives the message of tea.Quit and returns.
Quit ==
    /\ program = "running"
    /\ quitting
    /\ program' = "quit"
    /\ UNCHANGED <<form, tasks, ticks, quitting, token, nkeys, lastKey>>

(***************************************************************************)
(* The function dropletCreate returns, run by the runtime off the event    *)
(* loop, one collaborator call per step.                                   *)
(***************************************************************************)
Return(t, calls, msg) ==
    /\ tasks' = [tasks EXCEPT ![t].pc = "returned", ![t].calls = calls, ![t].msg = msg]
    /\ UNCHANGED <<form, ticks, quitting, program, token, nkeys, lastKey>>

Goto(t, calls, pc) ==
    /\ tasks' = [tasks EXCEPT ![t].pc = pc, ![t].calls = calls]
    /\ UNCHANGED <<form, ticks, quitting, program, token, nkeys, lastKey>>

\* A nil dereference or an index out of range in the command's goroutine
\* ends the process.
Panic(t) ==
    /\ tasks' = [tasks EXCEPT ![t].pc = "panic"]
    /\ program' = "panic"
    /\ UNCHANGED <<form, ticks, quitting, token, nkeys, lastKey>>

Call(t, op, ok) ==
    Append(tasks[t].calls, [op |-> op, err |-> IF ok THEN "" ELSE ErrorOf(op)])

\* TokenMissing without the check.
TokenMissingNever(tok) == FALSE

TokenMissing(tok) == tok = ""

TaskGetenv(t) ==
    /\ program = "running"
    /\ tasks[t].pc = "getenv"
    /\ IF TokenMissing(token)
       THEN Return(t, tasks[t].calls, dropletErrorMsg(ErrorOf("getenv")))
       ELSE Goto(t, tasks[t].calls, "create")

\* CreateArg building the request from the inputs when Create is called.
CreateArgLive(t) == setDropletCreate(inputs)

\* The createReq the closure captured when dropletCreate was called.
CreateArg(t) == tasks[t].req

\* client.Droplets.Create(ctx, createReq)
TaskCreate(t) ==
    /\ program = "running"
    /\ tasks[t].pc = "create"
    /\ \E ok \in BOOLEAN :
          tasks' = [tasks EXCEPT
                       ![t].sent = <<CreateArg(t)>>,
                       ![t].calls = Call(t, "create", ok),
                       ![t].pc = IF ok THEN "wait" ELSE "returned",
                       ![t].msg = IF ok THEN @ ELSE dropletErrorMsg(ErrorOf("create"))]
    /\ UNCHANGED <<form, ticks, quitting, program, token, nkeys, lastKey>>

\* TaskWait going on to Get when WaitForActive fails.
TaskWaitIgnoringError(t) ==
    /\ program = "running"
    /\ tasks[t].pc = "wait"
    /\ \/ Panic(t)
       \/ Goto(t, Call(t, "wait", FALSE), "get")
       \/ Goto(t, Call(t, "wait", TRUE), "get")

\* util.WaitForActive(ctx, client, resp.Links.Actions[0].HREF): the argument
\* is read from the response of Create without a check, and a response
\* that names no action (Links nil, or Actions empty) makes it panic.
TaskWait(t) ==
    /\ program = "running"
    /\ tasks[t].pc = "wait"
    /\ \/ Panic(t)
       \/ Return(t, Call(t, "wait", FALSE), dropletErrorMsg(ErrorOf("wait")))
       \/ Goto(t, Call(t, "wait", TRUE), "get")

\* client.Droplets.Get
TaskGet(t) ==
    /\ program = "running"
    /\ tasks[t].pc = "get"
    /\ \/ Return(t, Call(t, "get", FALSE), dropletErrorMsg(ErrorOf("get")))
       \/ Goto(t, Call(t, "get", TRUE), "publicIP")

\* droplet.PublicIPv4()
TaskPublicIP(t) ==
    /\ program = "running"
    /\ tasks[t].pc = "publicIP"
    /\ \/ Return(t, Call(t, "publicIP", FALSE), dropletErrorMsg(ErrorOf("publicIP")))
       \/ Goto(t, Call(t, "publicIP", TRUE), "privateIP")

\* droplet.PrivateIPv4()
TaskPrivateIP(t) ==
    /\ program = "running"
    /\ tasks[t].pc = "privateIP"
    /\ \/ Return(t, Call(t, "privateIP", FALSE), dropletErrorMsg(ErrorOf("privateIP")))
       \/ Goto(t, Call(t, "privateIP", TRUE), "summary")

\* The summary reads droplet.Size.PriceMonthly and droplet.Region.Name of the
\* droplet Get returned, again without a check: a droplet whose Size or
\* Region is nil makes it panic.
TaskSummary(t) ==
    /\ program = "running"
    /\ tasks[t].pc = "summary"
    /\ \/ Panic(t)
       \/ Return(t, tasks[t].calls, SuccessMsg)

Next ==
    \/ \E key \in Keys : UpdateCancel(key)
    \/ \E key \in Keys : UpdateSubmit(key)
    \/ \E key \in Keys : UpdateFocus(key)
    \/ \E key \in Keys : UpdateEdit(key)
    \/ UpdateTick
    \/ \E t \in 1..Len(tasks) : UpdateDropletMsg(t)
    \/ Quit
    \/ \E t \in 1..Len(tasks) : TaskGetenv(t)
    \/ \E t \in 1..Len(tasks) : TaskCreate(t)
    \/ \E t \in 1..Len(tasks) : TaskWait(t)
    \/ \E t \in 1..Len(tasks) : TaskGet(t)
    \/ \E t \in 1..Len(tasks) : TaskPublicIP(t)
    \/ \E t \in 1..Len(tasks) : TaskPrivateIP(t)
    \/ \E t \in 1..Len(tasks) : TaskSummary(t)

Spec == Init /\ [][Next]_vars

\* One step of the command of task t, whichever statement it is at.
TaskStep(t) ==
    /\ t \in 1..Len(tasks)
    /\ \/ TaskGetenv(t)
       \/ TaskCreate(t)
       \/ TaskWait(t)
       \/ TaskGet(t)
       \/ TaskPublicIP(t)
       \/ TaskPrivateIP(t)
       \/ TaskSummary(t)

\* Every collaborator call returns and the goroutine of a command keeps
\* running; the event loop handles the messages sent to it, the message of
\* tea.Quit included.  No key has to be pressed.
SpecLive ==
    /\ Init
    /\ [][Next]_vars
    /\ \A t \in 1..MaxTasks : WF_vars(TaskStep(t))
    /\ WF_vars(\E t \in 1..Len(tasks) : UpdateDropletMsg(t))
    /\ WF_vars(Quit)

(***************************************************************************)
(* The request builder on its own: the form holds any strings the user may *)
(* have typed, the Create button has the focus, and Enter is pressed.      *)
(***************************************************************************)
StrsUpTo(alphabet, n) == UNION {[1..k -> alphabet] : k \in 0..n}

\* The image strings tried: every short string over ImageChars, and the
\* two examples the documentation of the form gives.
ImageChars == {"0", "1", "-", "+", "a"}
ImageStrs ==
    StrsUpTo(ImageChars, MaxStr) \cup {<<"1", "2", "3", "4", "5">>, Placeholder(4)}

InitReq ==
    /\ focusIndex = NumInputs
    /\ \E name, region, size \in StrsUpTo(Chars, MaxFieldStr) : \E image \in ImageStrs :
          inputs = [i \in 1..NumInputs |->
                       [value |-> <<name, region, size, image>>[i], focus |-> FALSE]]
    /\ spinner = 0
    /\ creating = FALSE
    /\ finalMsg = ""
    /\ droplet = <<>>
    /\ tasks = <<>>
    /\ ticks = 0
    /\ quitting = FALSE
    /\ program = "running"
    /\ token = "dop_v1_token"
    /\ nkeys = 0
    /\ lastKey = ""

NextReq == \E key \in FocusKeys : UpdateSubmit(key)

SpecReq == InitReq /\ [][NextReq]_vars

(***************************************************************************)
(* The form with inputs filled to their limits or just below, any control  *)
(* focused, and the keys that edit and move the focus.                     *)
(***************************************************************************)
Fill(n) == [k \in 1..n |-> "a"]

InitLimit ==
    /\ focusIndex \in 0..NumInputs
    /\ \E below \in [1..NumInputs -> 0..MaxBelow] :
          inputs = [i \in 1..NumInputs |->
                       [value |-> Fill((IF i = 1 THEN NameCharLimit ELSE CharLimit) - below[i]),
                        focus |-> (i - 1 = focusIndex)]]
    /\ spinner = 0
    /\ creating = FALSE
    /\ finalMsg = ""
    /\ droplet = <<>>
    /\ tasks = <<>>
    /\ ticks = 0
    /\ quitting = FALSE
    /\ program = "running"
    /\ token = "dop_v1_token"
    /\ nkeys = 0
    /\ lastKey = ""

NextLimit ==
    \/ \E key \in Keys : UpdateFocus(key)
    \/ \E key \in Keys : UpdateEdit(key)

SpecLimit == InitLimit /\ [][NextLimit]_vars

(***************************************************************************)
(* Properties.                                                             *)
(***************************************************************************)
Values(inps) == [i \in 1..NumInputs |-> inps[i].value]

\* The step is Update handling a key event whose key is in K.
KeyHandled(K) == nkeys' = nkeys + 1 /\ lastKey' \in K

\* The step dispatches a dropletCreate command.
Dispatched == Len(tasks') > Len(tasks)

\* The phases of the form, as View tells them apart.
Editing == ~creating /\ finalMsg = ""
Submitting == creating /\ finalMsg = ""
Done == finalMsg # ""

\* C1: in every reachable state focusIndex is in [0, 4] and exactly one
\* control has the focus: input i is focused iff i = focusIndex, and no
\* input is focused (the Create button is) iff focusIndex = 4.
C1_ExactlyOneFocused ==
    /\ focusIndex \in 0..4
    /\ \A i \in 1..4 : inputs[i].focus <=> (i - 1 = focusIndex)
    /\ (\A i \in 1..4 : ~inputs[i].focus) <=> (focusIndex = 4)
    /\ Cardinality({i \in 1..4 : inputs[i].focus})
         + (IF focusIndex = 4 THEN 1 ELSE 0) = 1

\* The focus has wrapped from the first input back to the Create button.
C1_Witness ==
    /\ lastKey = "shift+tab"
    /\ focusIndex = 4
    /\ \A i \in 1..4 : ~inputs[i].focus

\* C2: while the form is Submitting, a key event other than ctrl+c and esc
\* leaves focusIndex and every input (value and focus) unchanged.
C2_OnlyCancelWhileSubmitting ==
    [][(Submitting /\ KeyHandled(Keys \ CancelKeys))
          => (focusIndex' = focusIndex /\ inputs' = inputs)]_vars

\* C3: a command is dispatched only by Enter on the Create button while the
\* form is Editing, so a session dispatches at most one.
C3_SingleDispatch ==
    /\ [][Dispatched => (lastKey' = "enter" /\ focusIndex = 4 /\ Editing)]_vars
    /\ [](Len(tasks) <= 1)

\* C4: every dispatched command ends with exactly one dropletMsg, whatever
\* the collaborator returns: none ends without a message and none crashes
\* the process.
C4_OneTerminalEvent ==
    /\ program # "panic"
    /\ \A t \in 1..Len(tasks) :
          /\ tasks[t].pc # "panic"
          /\ (tasks[t].pc \in {"returned", "handled"}) <=> (tasks[t].msg # "")

\* C5: with DO_TOKEN absent or empty, a command calls no collaborator step
\* and returns the configuration error, which is the only message the form
\* can end with.
ConfigurationErrorMsg ==
    "Something went wrong:\n\nset the 'DO_TOKEN' environment variable to a DigitalOcean API token\n\n"

C5_MissingCredential ==
    token = "" =>
        /\ \A t \in 1..Len(tasks) :
              /\ tasks[t].calls = <<>>
              /\ tasks[t].pc \in {"getenv", "returned", "handled"}
              /\ tasks[t].pc # "getenv" => tasks[t].msg = ConfigurationErrorMsg
        /\ finalMsg \in {"", ConfigurationErrorMsg}

\* Without a token a command has run and the form shows its error.
C5_Witness ==
    /\ token = ""
    /\ finalMsg = ConfigurationErrorMsg
    /\ \E t \in 1..Len(tasks) : tasks[t].pc = "handled" /\ tasks[t].calls = <<>>

\* C6: a command invokes create, wait, get, publicIP, privateIP in this
\* order, each only after every earlier one succeeded; the first failure
\* makes it return the error message carrying that failure's description,
\* with no later step invoked; the summary is returned only after all five
\* succeeded.
C6_StepsInOrder ==
    \A t \in 1..Len(tasks) :
        LET c == tasks[t].calls
            n == Len(c)
        IN  /\ n <= 5
            /\ \A k \in 1..n :
                  c[k].op = <<"create", "wait", "get", "publicIP", "privateIP">>[k]
            /\ \A k \in 1..(n - 1) : c[k].err = ""
            /\ (n > 0 /\ c[n].err # "") =>
                  tasks[t].msg = "Something went wrong:\n\n" \o c[n].err \o "\n\n"
            /\ tasks[t].msg = SuccessMsg =>
                  (n = 5 /\ \A k \in 1..5 : c[k].err = "")
            /\ (tasks[t].msg \notin {"", SuccessMsg, ConfigurationErrorMsg}) =>
                  (n > 0 /\ c[n].err # "")

\* One command has failed at get, after create and wait succeeded, and
\* another has gone through all five steps.
C6_Witness ==
    \E t, u \in 1..Len(tasks) :
        /\ Len(tasks[t].calls) = 3
        /\ tasks[t].calls[3].err # ""
        /\ tasks[t].pc = "returned"
        /\ tasks[u].msg = SuccessMsg

\* C7: in every phase ctrl+c and esc make Update return tea.Quit and leave
\* the model as it is: no message is stored, no command is dispatched, and
\* focusIndex and the inputs are unchanged.
C7_CancelInEveryPhase ==
    [][KeyHandled(CancelKeys)
          => /\ quitting'
             /\ finalMsg' = finalMsg
             /\ tasks' = tasks
             /\ focusIndex' = focusIndex
             /\ inputs' = inputs
             /\ creating' = creating
             /\ droplet' = droplet]_vars

\* The program has ended on a cancel key pressed while Submitting.
C7_Witness ==
    /\ lastKey \in CancelKeys
    /\ Submitting
    /\ program = "quit"

\* C8: once finalMsg is set, no event changes it, changes an input's value
\* or focusIndex, or dispatches another command.
C8_TerminalPhase ==
    [][Done => /\ finalMsg' = finalMsg
               /\ Values(inputs') = Values(inputs)
               /\ focusIndex' = focusIndex
               /\ ~Dispatched]_vars

\* The value input i contributes to a request: its own, or its placeholder
\* when it is empty.
Resolved(i) == IF inputs[i].value # <<>> THEN inputs[i].value ELSE Placeholder(i)

\* The image a request holds stands for the image string str.
ImageOf(image, str) ==
    \/ image.Slug = str
    \/ image.Slug = <<>> /\ ~Atoi(str).err /\ image.ID = Atoi(str).i

\* C9: the request dispatched takes name, region, size and image from
\* inputs 0, 1, 2, 3 in this order, each the input's value when it is not
\* empty and its placeholder otherwise; with all four empty it is web-001,
\* nyc3, s-1vcpu-1gb and the slug ubuntu-20-04-x64; the inputs are unchanged.
C9_RequestFromFields ==
    [][Dispatched =>
          LET req == tasks'[Len(tasks')].req
          IN  /\ droplet' = <<req>>
              /\ req.Name = Resolved(1)
              /\ req.Region = Resolved(2)
              /\ req.Size = Resolved(3)
              /\ ImageOf(req.Image, Resolved(4))
              /\ (\A i \in 1..4 : inputs[i].value = <<>>) =>
                    req = [Name |-> <<"w", "e", "b", "-", "0", "0", "1">>,
                           Region |-> <<"n", "y", "c", "3">>,
                           Size |-> <<"s", "-", "1", "v", "c", "p", "u", "-", "1", "g", "b">>,
                           Image |-> [ID |-> 0,
                                      Slug |-> <<"u", "b", "u", "n", "t", "u", "-", "2", "0",
                                                 "-", "0", "4", "-", "x", "6", "4">>]]
              /\ inputs' = inputs]_vars

\* A request built from a typed region and size and the name's placeholder.
C9_Witness ==
    /\ Len(tasks) > 0
    /\ inputs[1].value = <<>>
    /\ inputs[2].value = <<"a">>
    /\ inputs[3].value = <<"1">>
    /\ tasks[1].req.Name = Placeholder(1)
    /\ tasks[1].req.Region = <<"a">>
    /\ tasks[1].req.Size = <<"1">>

\* The two forms of godo.DropletCreateImage: a form is set when its field
\* is not the zero value.
HasID(image) == image.ID # 0
HasSlug(image) == image.Slug # <<>>

TwoWay(image, str) ==
    IF ~Atoi(str).err
    THEN image.ID = Atoi(str).i /\ image.Slug = <<>>
    ELSE image.Slug = str /\ image.ID = 0

Examples(image, str) ==
    /\ str = <<"1", "2", "3", "4", "5">> => image = [ID |-> 12345, Slug |-> <<>>]
    /\ str = Placeholder(4) => image = [ID |-> 0, Slug |-> Placeholder(4)]

\* C10 as stated: an image string that parses as an integer gives that ID
\* and no slug, any other gives the string as slug and no ID, and exactly
\* one of the two forms is set in every request.
C10_ExactlyOneForm ==
    [][Dispatched =>
          LET image == tasks'[Len(tasks')].req.Image
          IN  /\ TwoWay(image, Resolved(4))
              /\ Examples(image, Resolved(4))
              /\ HasID(image) # HasSlug(image)]_vars

\* C10 as amended: an image string that parses as an integer gives that ID
\* and no slug, any other gives the string as slug and no ID; exactly one
\* of the two forms is set unless the string parses to 0, and then neither
\* is.
C10_ImageResolution ==
    [][Dispatched =>
          LET image == tasks'[Len(tasks')].req.Image
              r == Atoi(Resolved(4))
          IN  /\ TwoWay(image, Resolved(4))
              /\ Examples(image, Resolved(4))
              /\ IF ~r.err /\ r.i = 0
                 THEN ~HasID(image) /\ ~HasSlug(image)
                 ELSE HasID(image) # HasSlug(image)]_vars

\* A request has been built from the image string "12345".
C10_Witness ==
    /\ Len(tasks) > 0
    /\ inputs[4].value = <<"1", "2", "3", "4", "5">>
    /\ tasks[1].req.Image = [ID |-> 12345, Slug |-> <<>>]

\* The focus after an advance (tab, down) and after a retreat (shift+tab,
\* up) from index i, as Update computes them.
Advance(i) == CycleIndex(i, "tab")
Retreat(i) == CycleIndex(i, "shift+tab")

\* C11: from any focusIndex i in [0, 4], tab and down yield (i + 1) mod 5
\* and shift+tab and up yield (i - 1 + 5) mod 5; so five advances, or five
\* retreats, from the focus reached lead back to it, and a retreat after an
\* advance restores it.
C11_FocusCycle ==
    /\ [][/\ KeyHandled({"tab", "down"}) => focusIndex' = (focusIndex + 1) % 5
          /\ KeyHandled({"shift+tab", "up"}) => focusIndex' = (focusIndex - 1 + 5) % 5]_vars
    /\ [](/\ Advance(Advance(Advance(Advance(Advance(focusIndex))))) = focusIndex
          /\ Retreat(Retreat(Retreat(Retreat(Retreat(focusIndex))))) = focusIndex
          /\ Retreat(Advance(focusIndex)) = focusIndex
          /\ Advance(Retreat(focusIndex)) = focusIndex)

\* A retreat from the first input to the Create button, then an advance
\* that wraps back to the first input.
C11_Witness ==
    /\ nkeys = 2
    /\ lastKey = "tab"
    /\ focusIndex = 0
    /\ inputs[1].focus

\* C12: the name never holds more than 64 characters and the region, size
\* and image never more than 32, and a character typed into a focused
\* input that is at its limit leaves every value unchanged.
C12_CharLimit ==
    /\ [](/\ Len(inputs[1].value) <= 64
          /\ \A i \in 2..4 : Len(inputs[i].value) <= 32)
    /\ [][(/\ KeyHandled(Chars)
           /\ focusIndex < 4
           /\ Len(inputs[focusIndex + 1].value) = (IF focusIndex = 0 THEN 64 ELSE 32))
             => Values(inputs') = Values(inputs)]_vars

\* A character has been typed into the focused region input, full at 32
\* characters, and the input still holds 32.
C12_Witness ==
    /\ lastKey \in Chars
    /\ focusIndex = 1
    /\ inputs[2].focus
    /\ inputs[2].value = Fill(32)

\* C13: once a Submit has put the form in Submitting, and every collaborator
\* call returns, either a completion event is handled (finalMsg is set and
\* the program is told to quit) or the user has cancelled (the program is
\* told to quit with no message handled).
C13_LeavesSubmitting ==
    Submitting ~> ((finalMsg # "" /\ quitting) \/ (finalMsg = "" /\ quitting))

\* C14: the phase only moves forward: creating, once true, is never reset;
\* finalMsg, once set, is never emptied; and finalMsg is set only in states
\* where creating is true, never while the form is in Editing.
C14_PhaseForward ==
    /\ [][/\ creating => creating'
          /\ finalMsg # "" => finalMsg' # ""]_vars
    /\ [](finalMsg # "" => creating /\ Len(tasks) > 0)
    /\ [](Editing => finalMsg = "" /\ tasks = <<>>)

\* A completion event has been handled: the message is stored and creating
\* is still true.
C14_Witness ==
    /\ finalMsg # ""
    /\ creating
    /\ \E t \in 1..Len(tasks) : tasks[t].pc = "handled"

\* C15: the request of a task is the one built from the fields when Enter
\* was handled; no step changes the request a task holds, and what the task
\* sends to Create is that request whatever was handled in between.
C15_RequestSnapshot ==
    /\ [][/\ Dispatched => tasks'[Len(tasks')].req = setDropletCreate(inputs)
          /\ \A t \in 1..Len(tasks) : tasks'[t].req = tasks[t].req]_vars
    /\ [](\A t \in 1..Len(tasks) :
              tasks[t].sent # <<>> => tasks[t].sent = <<tasks[t].req>>)

\* A task has called Create after a field was edited behind it: the fields
\* now resolve to another request than the one it sent.
C15_Witness ==
    /\ Len(tasks) > 0
    /\ tasks[1].sent # <<>>
    /\ tasks[1].sent[1] # setDropletCreate(inputs)
    /\ tasks[1].sent[1].Name = Placeholder(1)

\* C16: a character key changes at most the value of the input whose index
\* is focusIndex: every other value, focusIndex, creating and finalMsg stay
\* as they were, and with the Create button focused no value changes.
C16_CharToFocusedOnly ==
    [][KeyHandled(Chars) =>
          /\ \A i \in 1..4 : i - 1 # focusIndex => inputs'[i].value = inputs[i].value
          /\ focusIndex = 4 => Values(inputs') = Values(inputs)
          /\ focusIndex' = focusIndex
          /\ creating' = creating
          /\ finalMsg' = finalMsg]_vars

\* A character typed with the region focused went to the region and to no
\* other input.
C16_Witness ==
    /\ lastKey \in Chars
    /\ focusIndex = 1
    /\ inputs[2].value = <<lastKey>>
    /\ \A i \in {1, 3, 4} : inputs[i].value = <<>>

\* C17: handling a spinner tick changes neither focusIndex, nor the inputs,
\* nor creating, nor finalMsg, and no tick is pending or handled before a
\* command has been dispatched.
C17_TicksAreCosmetic ==
    /\ [][spinner' # spinner =>
             /\ focusIndex' = focusIndex
             /\ inputs' = inputs
             /\ creating' = creating
             /\ finalMsg' = finalMsg]_vars
    /\ [](ticks > 0 \/ spinner # 0 => Len(tasks) > 0 /\ creating)

\* A tick has been handled while an input had the focus again.
C17_Witness ==
    /\ spinner # 0
    /\ creating
    /\ focusIndex = 0
    /\ inputs[1].focus

\* C18: a tab, shift+tab, up, down or enter key event leaves the value of
\* every input as it was, the Enter that submits included.
C18_FocusKeysKeepValues ==
    [][KeyHandled(FocusKeys) => Values(inputs') = Values(inputs)]_vars

\* Enter has submitted a form whose name was typed, after the focus was
\* moved off the name: the name is still there.
C18_Witness ==
    /\ lastKey = "enter"
    /\ Len(tasks) = 1
    /\ inputs[1].value = <<"a">>
    /\ ~inputs[1].focus

\* C19: Enter handled with an input focused dispatches no command, keeps
\* creating and finalMsg, and gives the state tab gives: the focus on the
\* next control and nothing else changed.
C19_EnterOnInputIsTab ==
    [][(KeyHandled({"enter"}) /\ focusIndex < 4) =>
          /\ ~Dispatched
          /\ tasks' = tasks
          /\ creating' = creating
          /\ finalMsg' = finalMsg
          /\ droplet' = droplet
          /\ focusIndex' = CycleIndex(focusIndex, "tab")
          /\ inputs' = SetFocus(inputs, CycleIndex(focusIndex, "tab"))
          /\ UNCHANGED <<spinner, ticks, quitting, program, token>>]_vars

\* Enter on the name of the fresh form: the region is focused, the form is
\* still shown and no command exists.
C19_Witness ==
    /\ lastKey = "enter"
    /\ nkeys = 1
    /\ focusIndex = 1
    /\ inputs[2].focus
    /\ Editing
    /\ tasks = <<>>
====
